---- MODULE Spec2Model ----
(***************************************************************************)
(* Frame streaming pipeline of bad-apple-rs (src/src/main.rs).             *)
(*                                                                         *)
(* img_thread_cnt loader threads (start_img_thread) each fill their own    *)
(* crossbeam channel, created with channel::bounded(10), with the frames   *)
(* whose index is congruent to the thread id; the loop of main pops one    *)
(* frame per elapsed frame interval from channel cur_frame % thread count. *)
(*                                                                         *)
(* Time is kept relative to the scheduler: ms_since_last is                *)
(* millis() - last_ms, saturated one above the frame interval, which is    *)
(* all that the comparison cur_ms > last_ms + frametime_ms distinguishes.  *)
(* last_ms starts at 0 and millis() is the time since the epoch, so the    *)
(* first comparison is always true: ms_since_last starts saturated.        *)
(***************************************************************************)
EXTENDS Integers, Sequences, FiniteSets, TLC

\* ------------------------------------------------------------------------
\* Bounds of the model
\* ------------------------------------------------------------------------
MaxLanes == 2
MaxFrames == 4
MaxPreload == 2
MaxFaults == 2
\* most frames of a run whose liveness is checked
LiveFrames == 3
\* extra frames beyond the channel capacity in the single-lane long run
LongExtra == 1
\* largest frame index whose file name is formatted in NameSpec
MaxNameIndex == 1100

\* ------------------------------------------------------------------------
\* Program constants
\* ------------------------------------------------------------------------
\* channel::bounded::<RgbImage>(10)
ChanCap == 10
\* #[arg(long, default_value_t = 60)] framerate: usize
DefaultFramerate == 60
\* the milliseconds of a second, the numerator of frametime_ms
MsPerSecond == 1000
\* --framerate 1000: the fastest rate whose frame interval is not zero
FastRate == MsPerSecond
\* the frame rates the runs are configured with (args.framerate):
\* the default of the program and the fastest one
FrameRates == {DefaultFramerate, FastRate}

Lanes == 0..(MaxLanes - 1)

VARIABLES
    img_thread_cnt,   \* number of loader threads / channels
    total_frames,     \* args.total_frames
    preload_frames,   \* preload depth handed to every loader thread
    framerate,        \* args.framerate
    bad_frames,       \* indices of the frames whose file fails to open or to decode
    thr_pc,           \* per loader thread: position in start_img_thread's closure
    thr_cur_frame,    \* per loader thread: its cur_frame (load cursor)
    chan,             \* per lane: the frames in the channel, oldest first
    failed_at,        \* per loader thread: index whose open/decode failed, -1 if none
    sent,             \* per loader thread: the indices it has sent, in order
    tried,            \* per loader thread: the indices it selected for loading
    gfx_pc,           \* "loop" | "join" | "exit"
    cur_frame,        \* main's cur_frame (playback cursor)
    ms_since_last,    \* millis() - last_ms, saturated at frametime_ms + 1
    ms_since_draw,    \* millis() - (cur_ms of the latest drawn frame), saturated alike
    ms_since_try,     \* millis() - (cur_ms of the latest try_recv), saturated alike
    last_tick,        \* outcome of the latest due tick: "none" | "draw" | "underrun" | "error"
    drawn,            \* indices of the frames drawn, in order
    drawn_lane,       \* lane each drawn frame was received from, in order
    joined,           \* number of thread handles main has joined
    name_idx,         \* NameSpec: frame index being formatted
    name_dir,         \* NameSpec: directory
    name_fmt,         \* NameSpec: extension
    img_fname         \* NameSpec: the formatted path

cfgvars == <<img_thread_cnt, total_frames, preload_frames, framerate, bad_frames>>
thrvars == <<thr_pc, thr_cur_frame, chan, failed_at, sent, tried>>
gfxvars == <<gfx_pc, cur_frame, ms_since_last, ms_since_draw, ms_since_try, last_tick, drawn, drawn_lane, joined>>
namevars == <<name_idx, name_dir, name_fmt, img_fname>>
vars == <<cfgvars, thrvars, gfxvars, namevars>>

\* ------------------------------------------------------------------------
\* Pure functions
\* ------------------------------------------------------------------------
Min(a, b) == IF a < b THEN a ELSE b

\* let frametime_ms = (1000 / args.framerate) as u128;
FrametimeMs(fr) == MsPerSecond \div fr

\* let preload_frames = if args.preload_frames > 0 { args.preload_frames } else { args.framerate };
PreloadFrames(arg, fr) == IF arg > 0 THEN arg ELSE fr

\* the ownership test taken one frame too far
SkipsFrameShifted(i, cnt, id) == ((i + 1) % cnt) # id

\* (cur_frame % opts.thread_cnt) != opts.thread_id  -- true when the thread skips the frame
SkipsFrame(i, cnt, id) == (i % cnt) # id

\* the lane selection taken one frame too far
RxIndexShifted(i, cnt) == (i + 1) % cnt

\* img_rx_channels[cur_frame % img_thread_cnt]
RxIndex(i, cnt) == i % cnt

\* decimal digits of n, most significant first
RECURSIVE Decimal(_)
Decimal(n) ==
    IF n < 10 THEN <<n>> ELSE Decimal(n \div 10) \o <<n % 10>>

\* {:03}: the decimal digits, zero-filled on the left up to width 3
RECURSIVE ZeroPad(_, _)
ZeroPad(ds, width) ==
    IF Len(ds) >= width THEN ds ELSE ZeroPad(<<0>> \o ds, width)

DigitChar(d) == << "0", "1", "2", "3", "4", "5", "6", "7", "8", "9" >>[d + 1]

Chars(ds) == [k \in 1..Len(ds) |-> DigitChar(ds[k])]

\* the path formatted from the 0-based index
FormatFnameZeroBased(dir, i, fmt) ==
    dir \o <<"/">> \o Chars(ZeroPad(Decimal(i), 3)) \o <<".">> \o fmt

\* format!("{}/{:03}.{}", opts.frame_dir, cur_frame + 1, opts.frame_fmt)
FormatFname(dir, i, fmt) ==
    dir \o <<"/">> \o Chars(ZeroPad(Decimal(i + 1), 3)) \o <<".">> \o fmt

Saturate(ms, fr) == Min(ms, FrametimeMs(fr) + 1)

\* ------------------------------------------------------------------------
\* Initial states
\* ------------------------------------------------------------------------
\* the sets of frames that ImageReader::open or decode may reject
FaultSets(T) == {b \in SUBSET (0..(T - 1)) : Cardinality(b) <= MaxFaults}

NameDirs == { <<"d">>, <<"/", "v", "/">> }
NameFmts == { <<"j", "p", "g">>, <<"p", "n", "g">> }

NameIdle ==
    /\ name_idx = 0
    /\ name_dir = <<>>
    /\ name_fmt = <<>>
    /\ img_fname = <<>>

PipeInit(rates, maxFrames) ==
    /\ img_thread_cnt \in 1..MaxLanes
    /\ framerate \in rates
    /\ \E arg \in 0..MaxPreload : preload_frames = PreloadFrames(arg, framerate)
    /\ \/ total_frames \in 0..maxFrames
       \/ /\ img_thread_cnt = 1
          /\ preload_frames > ChanCap
          /\ total_frames = ChanCap + LongExtra
    /\ bad_frames \in FaultSets(total_frames)
    /\ thr_pc = [w \in 0..(img_thread_cnt - 1) |->
                   IF 0 < total_frames THEN "inner" ELSE "stopping"]
    /\ thr_cur_frame = [w \in 0..(img_thread_cnt - 1) |-> 0]
    /\ chan = [w \in 0..(img_thread_cnt - 1) |-> <<>>]
    /\ failed_at = [w \in 0..(img_thread_cnt - 1) |-> -1]
    /\ sent = [w \in 0..(img_thread_cnt - 1) |-> <<>>]
    /\ tried = [w \in 0..(img_thread_cnt - 1) |-> {}]
    /\ gfx_pc = "loop"
    /\ cur_frame = 0
    /\ ms_since_last = FrametimeMs(framerate) + 1
    /\ ms_since_draw = FrametimeMs(framerate) + 1
    /\ ms_since_try = FrametimeMs(framerate) + 1
    /\ last_tick = "none"
    /\ drawn = <<>>
    /\ drawn_lane = <<>>
    /\ joined = 0

Init == PipeInit(FrameRates, MaxFrames) /\ NameIdle

Threads == 0..(img_thread_cnt - 1)

\* ------------------------------------------------------------------------
\* Loader thread (start_img_thread)
\* ------------------------------------------------------------------------
\* 'outer: while cur_frame < opts.frame_cnt -- where the thread goes on from the loop test
OuterTest(w) == IF thr_cur_frame[w] < total_frames THEN "inner" ELSE "stopping"

\* the preload test with <= in place of <
QueueAtMostPreload(w) == Len(chan[w]) <= preload_frames

\* tx.len() < opts.preload
QueueBelowPreload(w) == Len(chan[w]) < preload_frames

\* the inner loop without its break at the end of the frames
ThrInnerBreakNoEnd(w) ==
    /\ thr_pc[w] = "inner"
    /\ ~QueueBelowPreload(w)
    /\ thr_pc' = [thr_pc EXCEPT ![w] = "after"]
    /\ UNCHANGED <<thr_cur_frame, chan, failed_at, sent, tried>>
    /\ UNCHANGED <<cfgvars, gfxvars, namevars>>

\* while tx.len() < opts.preload: leave the inner loop (queue at preload depth, or no frame left)
ThrInnerBreak(w) ==
    /\ thr_pc[w] = "inner"
    /\ \/ ~QueueBelowPreload(w)
       \/ thr_cur_frame[w] >= total_frames
    /\ thr_pc' = [thr_pc EXCEPT ![w] = "after"]
    /\ UNCHANGED <<thr_cur_frame, chan, failed_at, sent, tried>>
    /\ UNCHANGED <<cfgvars, gfxvars, namevars>>

\* skip this frame as it'll be handled by another thread
ThrSkip(w) ==
    /\ thr_pc[w] = "inner"
    /\ QueueBelowPreload(w)
    /\ thr_cur_frame[w] < total_frames
    /\ SkipsFrame(thr_cur_frame[w], img_thread_cnt, w)
    /\ thr_cur_frame' = [thr_cur_frame EXCEPT ![w] = @ + 1]
    /\ UNCHANGED <<thr_pc, chan, failed_at, sent, tried>>
    /\ UNCHANGED <<cfgvars, gfxvars, namevars>>

\* ImageReader::open, decode and resize_exact all succeed: the frame is ready to send
ThrLoad(w) ==
    /\ thr_pc[w] = "inner"
    /\ QueueBelowPreload(w)
    /\ thr_cur_frame[w] < total_frames
    /\ ~SkipsFrame(thr_cur_frame[w], img_thread_cnt, w)
    /\ thr_cur_frame[w] \notin bad_frames
    /\ tried' = [tried EXCEPT ![w] = @ \cup {thr_cur_frame[w]}]
    /\ thr_pc' = [thr_pc EXCEPT ![w] = "send"]
    /\ UNCHANGED <<thr_cur_frame, chan, failed_at, sent>>
    /\ UNCHANGED <<cfgvars, gfxvars, namevars>>

\* a failed load that moves on to the next index instead of stopping
ThrLoadFailSkip(w) ==
    /\ thr_pc[w] = "inner"
    /\ QueueBelowPreload(w)
    /\ thr_cur_frame[w] < total_frames
    /\ ~SkipsFrame(thr_cur_frame[w], img_thread_cnt, w)
    /\ thr_cur_frame[w] \in bad_frames
    /\ tried' = [tried EXCEPT ![w] = @ \cup {thr_cur_frame[w]}]
    /\ failed_at' = [failed_at EXCEPT ![w] = thr_cur_frame[w]]
    /\ thr_cur_frame' = [thr_cur_frame EXCEPT ![w] = @ + 1]
    /\ UNCHANGED <<thr_pc, chan, sent>>
    /\ UNCHANGED <<cfgvars, gfxvars, namevars>>

\* ImageReader::open or decode fails: break 'outer
ThrLoadFail(w) ==
    /\ thr_pc[w] = "inner"
    /\ QueueBelowPreload(w)
    /\ thr_cur_frame[w] < total_frames
    /\ ~SkipsFrame(thr_cur_frame[w], img_thread_cnt, w)
    /\ thr_cur_frame[w] \in bad_frames
    /\ tried' = [tried EXCEPT ![w] = @ \cup {thr_cur_frame[w]}]
    /\ failed_at' = [failed_at EXCEPT ![w] = thr_cur_frame[w]]
    /\ thr_pc' = [thr_pc EXCEPT ![w] = "stopping"]
    /\ UNCHANGED <<thr_cur_frame, chan, sent>>
    /\ UNCHANGED <<cfgvars, gfxvars, namevars>>

\* a send through the sender of the first channel
ThrSendFirstChannel(w) ==
    /\ thr_pc[w] = "send"
    /\ Len(chan[0]) < ChanCap
    /\ chan' = [chan EXCEPT ![0] = Append(@, thr_cur_frame[w])]
    /\ sent' = [sent EXCEPT ![w] = Append(@, thr_cur_frame[w])]
    /\ thr_cur_frame' = [thr_cur_frame EXCEPT ![w] = @ + 1]
    /\ thr_pc' = [thr_pc EXCEPT ![w] = "inner"]
    /\ UNCHANGED <<failed_at, tried>>
    /\ UNCHANGED <<cfgvars, gfxvars, namevars>>

\* a send that leaves the load cursor where it was
ThrSendNoAdvance(w) ==
    /\ thr_pc[w] = "send"
    /\ Len(chan[w]) < ChanCap
    /\ chan' = [chan EXCEPT ![w] = Append(@, thr_cur_frame[w])]
    /\ sent' = [sent EXCEPT ![w] = Append(@, thr_cur_frame[w])]
    /\ thr_pc' = [thr_pc EXCEPT ![w] = "inner"]
    /\ UNCHANGED <<thr_cur_frame, failed_at, tried>>
    /\ UNCHANGED <<cfgvars, gfxvars, namevars>>

\* tx.send(img_send): blocks while the channel holds ChanCap frames; cur_frame += 1
ThrSend(w) ==
    /\ thr_pc[w] = "send"
    /\ Len(chan[w]) < ChanCap
    /\ chan' = [chan EXCEPT ![w] = Append(@, thr_cur_frame[w])]
    /\ sent' = [sent EXCEPT ![w] = Append(@, thr_cur_frame[w])]
    /\ thr_cur_frame' = [thr_cur_frame EXCEPT ![w] = @ + 1]
    /\ thr_pc' = [thr_pc EXCEPT ![w] = "inner"]
    /\ UNCHANGED <<failed_at, tried>>
    /\ UNCHANGED <<cfgvars, gfxvars, namevars>>

\* if tx.len() >= opts.preload { sleep(100ms) }
ThrAfter(w) ==
    /\ thr_pc[w] = "after"
    /\ thr_pc' = [thr_pc EXCEPT ![w] =
                    IF Len(chan[w]) >= preload_frames THEN "sleep" ELSE OuterTest(w)]
    /\ UNCHANGED <<thr_cur_frame, chan, failed_at, sent, tried>>
    /\ UNCHANGED <<cfgvars, gfxvars, namevars>>

\* the 100 ms sleep is over: back to the test of the outer loop
ThrWake(w) ==
    /\ thr_pc[w] = "sleep"
    /\ thr_pc' = [thr_pc EXCEPT ![w] = OuterTest(w)]
    /\ UNCHANGED <<thr_cur_frame, chan, failed_at, sent, tried>>
    /\ UNCHANGED <<cfgvars, gfxvars, namevars>>

\* the closure returns: tx is dropped, the channel is disconnected
ThrExit(w) ==
    /\ thr_pc[w] = "stopping"
    /\ thr_pc' = [thr_pc EXCEPT ![w] = "done"]
    /\ UNCHANGED <<thr_cur_frame, chan, failed_at, sent, tried>>
    /\ UNCHANGED <<cfgvars, gfxvars, namevars>>

ThrStep(w) ==
    \/ ThrInnerBreak(w)
    \/ ThrSkip(w)
    \/ ThrLoad(w)
    \/ ThrLoadFail(w)
    \/ ThrSend(w)
    \/ ThrAfter(w)
    \/ ThrWake(w)
    \/ ThrExit(w)

\* ------------------------------------------------------------------------
\* Scheduler (the loop of main) and the join phase
\* ------------------------------------------------------------------------
TickDue == ms_since_last > FrametimeMs(framerate)

RxLane == RxIndex(cur_frame, img_thread_cnt)

\* a channel that never reports Disconnected
RxNeverDisconnected(w) == FALSE

\* a channel that reports Disconnected as soon as its sender is dropped
RxDisconnectedEager(w) == thr_pc[w] = "done"

\* try_recv() reports Disconnected only for an empty channel whose sender is dropped
RxDisconnected(w) == chan[w] = <<>> /\ thr_pc[w] = "done"

\* the clock moves on by one millisecond
ClockTick ==
    /\ gfx_pc = "loop"
    /\ \/ ms_since_last < FrametimeMs(framerate) + 1
       \/ ms_since_draw < FrametimeMs(framerate) + 1
       \/ ms_since_try < FrametimeMs(framerate) + 1
    /\ ms_since_last' = Saturate(ms_since_last + 1, framerate)
    /\ ms_since_draw' = Saturate(ms_since_draw + 1, framerate)
    /\ ms_since_try' = Saturate(ms_since_try + 1, framerate)
    /\ UNCHANGED <<gfx_pc, cur_frame, last_tick, drawn, drawn_lane, joined>>
    /\ UNCHANGED <<cfgvars, thrvars, namevars>>

\* else branch: std::thread::sleep(1 ms)
GfxSleep ==
    /\ gfx_pc = "loop"
    /\ cur_frame < total_frames
    /\ ~TickDue
    /\ ms_since_last' = Saturate(ms_since_last + 1, framerate)
    /\ ms_since_draw' = Saturate(ms_since_draw + 1, framerate)
    /\ ms_since_try' = Saturate(ms_since_try + 1, framerate)
    /\ UNCHANGED <<gfx_pc, cur_frame, last_tick, drawn, drawn_lane, joined>>
    /\ UNCHANGED <<cfgvars, thrvars, namevars>>

\* a draw that looks at the head of the channel without taking it out
GfxDrawPeek ==
    /\ gfx_pc = "loop"
    /\ cur_frame < total_frames
    /\ TickDue
    /\ chan[RxLane] # <<>>
    /\ ms_since_last' = 0
    /\ ms_since_draw' = 0
    /\ ms_since_try' = 0
    /\ drawn' = Append(drawn, Head(chan[RxLane]))
    /\ drawn_lane' = Append(drawn_lane, RxLane)
    /\ cur_frame' = cur_frame + 1
    /\ last_tick' = "draw"
    /\ UNCHANGED <<gfx_pc, joined>>
    /\ UNCHANGED <<thr_pc, thr_cur_frame, chan, failed_at, sent, tried>>
    /\ UNCHANGED <<cfgvars, namevars>>

\* a draw that catches up by moving the cursor two frames on
GfxDrawCatchUp ==
    /\ gfx_pc = "loop"
    /\ cur_frame < total_frames
    /\ TickDue
    /\ chan[RxLane] # <<>>
    /\ ms_since_last' = 0
    /\ ms_since_draw' = 0
    /\ ms_since_try' = 0
    /\ chan' = [chan EXCEPT ![RxLane] = Tail(@)]
    /\ drawn' = Append(drawn, Head(chan[RxLane]))
    /\ drawn_lane' = Append(drawn_lane, RxLane)
    /\ cur_frame' = cur_frame + 2
    /\ last_tick' = "draw"
    /\ UNCHANGED <<gfx_pc, joined>>
    /\ UNCHANGED <<thr_pc, thr_cur_frame, failed_at, sent, tried>>
    /\ UNCHANGED <<cfgvars, namevars>>

\* a draw that leaves last_ms as it was
GfxDrawNoReset ==
    /\ gfx_pc = "loop"
    /\ cur_frame < total_frames
    /\ TickDue
    /\ chan[RxLane] # <<>>
    /\ ms_since_draw' = 0
    /\ ms_since_try' = 0
    /\ chan' = [chan EXCEPT ![RxLane] = Tail(@)]
    /\ drawn' = Append(drawn, Head(chan[RxLane]))
    /\ drawn_lane' = Append(drawn_lane, RxLane)
    /\ cur_frame' = cur_frame + 1
    /\ last_tick' = "draw"
    /\ UNCHANGED <<gfx_pc, joined, ms_since_last>>
    /\ UNCHANGED <<thr_pc, thr_cur_frame, failed_at, sent, tried>>
    /\ UNCHANGED <<cfgvars, namevars>>

\* Ok(img): draw_image_rgb, push_buffer, cur_frame += 1
GfxDraw ==
    /\ gfx_pc = "loop"
    /\ cur_frame < total_frames
    /\ TickDue
    /\ chan[RxLane] # <<>>
    /\ ms_since_last' = 0
    /\ ms_since_draw' = 0
    /\ ms_since_try' = 0
    /\ chan' = [chan EXCEPT ![RxLane] = Tail(@)]
    /\ drawn' = Append(drawn, Head(chan[RxLane]))
    /\ drawn_lane' = Append(drawn_lane, RxLane)
    /\ cur_frame' = cur_frame + 1
    /\ last_tick' = "draw"
    /\ UNCHANGED <<gfx_pc, joined>>
    /\ UNCHANGED <<thr_pc, thr_cur_frame, failed_at, sent, tried>>
    /\ UNCHANGED <<cfgvars, namevars>>

\* an underrun that leaves last_ms as it was
GfxUnderrunNoReset ==
    /\ gfx_pc = "loop"
    /\ cur_frame < total_frames
    /\ TickDue
    /\ chan[RxLane] = <<>>
    /\ ~RxDisconnected(RxLane)
    /\ ms_since_try' = 0
    /\ last_tick' = "underrun"
    /\ UNCHANGED <<gfx_pc, cur_frame, ms_since_last, ms_since_draw, drawn, drawn_lane, joined>>
    /\ UNCHANGED <<cfgvars, thrvars, namevars>>

\* an underrun that gives the missing frame up and moves on to the next one
GfxUnderrunSkip ==
    /\ gfx_pc = "loop"
    /\ cur_frame < total_frames
    /\ TickDue
    /\ chan[RxLane] = <<>>
    /\ ~RxDisconnected(RxLane)
    /\ ms_since_last' = 0
    /\ ms_since_try' = 0
    /\ last_tick' = "underrun"
    /\ cur_frame' = cur_frame + 1
    /\ UNCHANGED <<gfx_pc, ms_since_draw, drawn, drawn_lane, joined>>
    /\ UNCHANGED <<cfgvars, thrvars, namevars>>

\* Err(TryRecvError::Empty): buffer underrun
GfxUnderrun ==
    /\ gfx_pc = "loop"
    /\ cur_frame < total_frames
    /\ TickDue
    /\ chan[RxLane] = <<>>
    /\ ~RxDisconnected(RxLane)
    /\ ms_since_last' = 0
    /\ ms_since_try' = 0
    /\ last_tick' = "underrun"
    /\ UNCHANGED <<gfx_pc, cur_frame, ms_since_draw, drawn, drawn_lane, joined>>
    /\ UNCHANGED <<cfgvars, thrvars, namevars>>

\* a channel error that is logged without leaving the loop
GfxErrorNoBreak ==
    /\ gfx_pc = "loop"
    /\ cur_frame < total_frames
    /\ TickDue
    /\ RxDisconnected(RxLane)
    /\ ms_since_last' = 0
    /\ ms_since_try' = 0
    /\ last_tick' = "error"
    /\ UNCHANGED <<gfx_pc, cur_frame, ms_since_draw, drawn, drawn_lane, joined>>
    /\ UNCHANGED <<cfgvars, thrvars, namevars>>

\* Err(err): any other channel error, break
GfxError ==
    /\ gfx_pc = "loop"
    /\ cur_frame < total_frames
    /\ TickDue
    /\ RxDisconnected(RxLane)
    /\ ms_since_last' = 0
    /\ ms_since_try' = 0
    /\ last_tick' = "error"
    /\ gfx_pc' = "join"
    /\ UNCHANGED <<cur_frame, ms_since_draw, drawn, drawn_lane, joined>>
    /\ UNCHANGED <<cfgvars, thrvars, namevars>>

\* while cur_frame < total_frames is false: the loop ends
GfxStop ==
    /\ gfx_pc = "loop"
    /\ ~(cur_frame < total_frames)
    /\ gfx_pc' = "join"
    /\ UNCHANGED <<cur_frame, ms_since_last, ms_since_draw, ms_since_try, last_tick, drawn, drawn_lane, joined>>
    /\ UNCHANGED <<cfgvars, thrvars, namevars>>

\* a join that returns without waiting for the thread
GfxJoinNoWait ==
    /\ gfx_pc = "join"
    /\ joined < img_thread_cnt
    /\ joined' = joined + 1
    /\ UNCHANGED <<gfx_pc, cur_frame, ms_since_last, ms_since_draw, ms_since_try, last_tick, drawn, drawn_lane>>
    /\ UNCHANGED <<cfgvars, thrvars, namevars>>

\* img_handle.join(): returns once the thread has finished
GfxJoin ==
    /\ gfx_pc = "join"
    /\ joined < img_thread_cnt
    /\ thr_pc[joined] = "done"
    /\ joined' = joined + 1
    /\ UNCHANGED <<gfx_pc, cur_frame, ms_since_last, ms_since_draw, ms_since_try, last_tick, drawn, drawn_lane>>
    /\ UNCHANGED <<cfgvars, thrvars, namevars>>

\* every handle is joined: main goes on to shut down
GfxExit ==
    /\ gfx_pc = "join"
    /\ joined = img_thread_cnt
    /\ gfx_pc' = "exit"
    /\ UNCHANGED <<cur_frame, ms_since_last, ms_since_draw, ms_since_try, last_tick, drawn, drawn_lane, joined>>
    /\ UNCHANGED <<cfgvars, thrvars, namevars>>

GfxStep ==
    \/ GfxSleep
    \/ GfxDraw
    \/ GfxUnderrun
    \/ GfxError
    \/ GfxStop
    \/ GfxJoin
    \/ GfxExit

Next ==
    \/ \E w \in Threads : ThrInnerBreak(w)
    \/ \E w \in Threads : ThrSkip(w)
    \/ \E w \in Threads : ThrLoad(w)
    \/ \E w \in Threads : ThrLoadFail(w)
    \/ \E w \in Threads : ThrSend(w)
    \/ \E w \in Threads : ThrAfter(w)
    \/ \E w \in Threads : ThrWake(w)
    \/ \E w \in Threads : ThrExit(w)
    \/ GfxStep
    \/ ClockTick

Spec == Init /\ [][Next]_vars

\* ------------------------------------------------------------------------
\* File names: the format! of line 86 applied to any index, directory, extension
\* ------------------------------------------------------------------------
PipeIdle ==
    /\ img_thread_cnt = 1
    /\ framerate = FastRate
    /\ preload_frames = 1
    /\ total_frames = MaxNameIndex + 1
    /\ bad_frames = {}
    /\ thr_pc = [w \in {0} |-> "inner"]
    /\ thr_cur_frame = [w \in {0} |-> 0]
    /\ chan = [w \in {0} |-> <<>>]
    /\ failed_at = [w \in {0} |-> -1]
    /\ sent = [w \in {0} |-> <<>>]
    /\ tried = [w \in {0} |-> {}]
    /\ gfx_pc = "loop"
    /\ cur_frame = 0
    /\ ms_since_last = FrametimeMs(framerate) + 1
    /\ ms_since_draw = FrametimeMs(framerate) + 1
    /\ ms_since_try = FrametimeMs(framerate) + 1
    /\ last_tick = "none"
    /\ drawn = <<>>
    /\ drawn_lane = <<>>
    /\ joined = 0

NameInit ==
    /\ PipeIdle
    /\ name_idx \in 0..MaxNameIndex
    /\ name_dir \in NameDirs
    /\ name_fmt \in NameFmts
    /\ img_fname = <<>>

\* let img_fname = format!(...)
NameFormat ==
    /\ img_fname = <<>>
    /\ img_fname' = FormatFname(name_dir, name_idx, name_fmt)
    /\ UNCHANGED <<name_idx, name_dir, name_fmt>>
    /\ UNCHANGED <<cfgvars, thrvars, gfxvars>>

NameNext == NameFormat

NameSpec == NameInit /\ [][NameNext]_vars

\* threads are scheduled fairly and the clock advances
Fairness ==
    /\ \A w \in Lanes : WF_vars(w \in Threads /\ ThrStep(w))
    /\ WF_vars(GfxStep)
    /\ WF_vars(ClockTick)

\* the runs whose liveness is checked: at the shortest frame interval at most
\* LiveFrames frames or the long single-lane run, at the default frame rate
\* fewer than LiveFrames frames
FairInit ==
    /\ \/ PipeInit({FastRate}, LiveFrames)
       \/ PipeInit({DefaultFramerate}, LiveFrames - 1) /\ total_frames < LiveFrames
    /\ NameIdle

FairSpec == FairInit /\ [][Next]_vars /\ Fairness

\* ------------------------------------------------------------------------
\* Properties
\* ------------------------------------------------------------------------

\* C1: the k-th frame drawn (k = 0, 1, ...) is received from lane k mod N and
\* is the frame of index k, in every interleaving of the threads: no gap, no
\* duplicate, no reordering.
C1_DrawnInOrder ==
    /\ Len(drawn) = cur_frame
    /\ Len(drawn_lane) = cur_frame
    /\ \A k \in 1..Len(drawn) :
          /\ drawn[k] = k - 1
          /\ drawn_lane[k] = (k - 1) % img_thread_cnt

C1_Witness ==
    /\ img_thread_cnt = 2
    /\ total_frames = 4
    /\ drawn = <<0, 1, 2, 3>>
    /\ drawn_lane = <<0, 1, 0, 1>>

\* C2: every lane's channel holds between 0 and preload_frames frames, also
\* when preload_frames is above the capacity of the channel.
C2_QueueWithinPreload ==
    \A w \in Threads : Len(chan[w]) >= 0 /\ Len(chan[w]) <= preload_frames

C2_Witness ==
    \E w \in Threads :
        /\ Len(chan[w]) = preload_frames
        /\ thr_pc[w] = "sleep"
        /\ thr_cur_frame[w] < total_frames

\* C3: a due tick that finds the selected channel empty while its thread has
\* not finished leaves cur_frame, the selected lane and the drawn frames as
\* they are and keeps the scheduler in its loop; once the frame is in the
\* channel a later due tick draws it.
C3_UnderrunDefers ==
    /\ [][ ( /\ gfx_pc = "loop"
             /\ cur_frame < total_frames
             /\ ms_since_last > FrametimeMs(framerate)
             /\ chan[cur_frame % img_thread_cnt] = <<>>
             /\ thr_pc[cur_frame % img_thread_cnt] # "done"
             /\ ms_since_last' = 0 )
           => ( /\ cur_frame' = cur_frame
                /\ drawn' = drawn
                /\ gfx_pc' = "loop"
                /\ last_tick' = "underrun" ) ]_vars
    /\ ( /\ last_tick = "underrun"
         /\ gfx_pc = "loop"
         /\ chan[cur_frame % img_thread_cnt] # <<>> )
       ~> ( last_tick = "draw" )

C3_Witness ==
    /\ last_tick = "underrun"
    /\ gfx_pc = "loop"
    /\ cur_frame > 0
    /\ cur_frame < total_frames
    /\ chan[cur_frame % img_thread_cnt] # <<>>
    /\ Head(chan[cur_frame % img_thread_cnt]) = cur_frame

\* smallest frame index whose open or decode fails
MinFault == CHOOSE m \in bad_frames : \A i \in bad_frames : m <= i

SomeThreadFailed == \E w \in Threads : failed_at[w] # -1

\* C4 as stated: after a loader thread has failed the scheduler stalls in its
\* loop for ever, it never leaves the loop.
C4_StallsInLoop ==
    (\E w \in Threads : failed_at[w] # -1 /\ thr_pc[w] = "done") => gfx_pc = "loop"

\* C4 amended: after a loader thread has failed at index i the scheduler never
\* draws frame i or a later one; it draws the frames below the smallest
\* failing index m <= i in order and then leaves its loop through the error
\* arm of the match, with cur_frame = m, without any panic.
C4_LeavesLoopAtGap ==
    /\ [](\A w \in Threads :
            failed_at[w] # -1 =>
               /\ cur_frame <= failed_at[w]
               /\ gfx_pc # "loop" => (last_tick = "error" /\ cur_frame = MinFault))
    /\ SomeThreadFailed
         ~> ( /\ gfx_pc # "loop"
              /\ last_tick = "error"
              /\ cur_frame = MinFault
              /\ drawn = [k \in 1..MinFault |-> k - 1] )

C4_Witness ==
    /\ img_thread_cnt = 2
    /\ failed_at[0] = 2
    /\ thr_pc[0] = "done"
    /\ sent[1] # <<>>
    /\ gfx_pc # "loop"
    /\ last_tick = "error"
    /\ drawn = <<0, 1>>
    /\ cur_frame = 2

OwnedCount(w) == Cardinality({i \in 0..(total_frames - 1) : i % img_thread_cnt = w})

\* C5: a failed open or decode stops the failing thread only: it sends nothing
\* from the failed index on (no retry, no skip), while every other thread goes
\* on sending its own indices in ascending order until it has sent them all
\* or its channel is full (preload depth or channel capacity).
C5_FailureIsLocal ==
    /\ [](\A w \in Threads :
            /\ failed_at[w] # -1 =>
                  /\ thr_pc[w] \in {"stopping", "done"}
                  /\ thr_cur_frame[w] = failed_at[w]
                  /\ \A k \in 1..Len(sent[w]) : sent[w][k] < failed_at[w]
            /\ thr_pc[w] \in {"stopping", "done"} =>
                  (failed_at[w] # -1 \/ thr_cur_frame[w] >= total_frames)
            /\ \A k \in 1..Len(sent[w]) : sent[w][k] = w + (k - 1) * img_thread_cnt)
    /\ [][\A w \in Threads : failed_at[w] # -1 => sent'[w] = sent[w]]_vars
    /\ \A v \in Lanes :
          <>[](v \in Threads =>
                 \/ failed_at[v] # -1
                 \/ Len(sent[v]) = OwnedCount(v)
                 \/ Len(chan[v]) >= Min(preload_frames, ChanCap))

C5_Witness ==
    \E w, v \in Threads :
        /\ failed_at[w] # -1
        /\ thr_pc[w] = "done"
        /\ failed_at[v] = -1
        /\ \E k \in 1..Len(sent[v]) : sent[v][k] > failed_at[w]

\* C6: the frame interval is 1000 div framerate (16 for 60), and the cursor
\* advances by one frame at a time, each advance after the first one at a
\* clock reading more than one interval after the reading of the previous
\* advance, also when frames are buffered or the scheduler is behind.
C6_OneFramePerInterval ==
    /\ [](/\ FrametimeMs(60) = 16
          /\ FrametimeMs(framerate) * framerate <= 1000
          /\ (FrametimeMs(framerate) + 1) * framerate > 1000)
    /\ [][cur_frame' # cur_frame =>
            /\ cur_frame' = cur_frame + 1
            /\ cur_frame > 0 => ms_since_draw > 1000 \div framerate]_vars

C6_Witness ==
    /\ gfx_pc = "loop"
    /\ cur_frame >= 2
    /\ last_tick = "draw"
    /\ ms_since_last <= FrametimeMs(framerate)
    /\ Len(chan[cur_frame % img_thread_cnt]) >= 2

OwnedBy(w) == {i \in 0..(total_frames - 1) : i % img_thread_cnt = w}

\* C7: the indices the threads select for loading are pairwise disjoint, each
\* thread selects only indices i with i mod N = its id, which is the lane the
\* scheduler receives frame i from, and threads that ran to the end without a
\* failure have selected exactly their share, together all of [0, T).
C7_PartitionExact ==
    /\ \A w \in Threads :
          /\ \A i \in tried[w] :
                /\ i \in 0..(total_frames - 1)
                /\ i % img_thread_cnt = w
                /\ RxIndex(i, img_thread_cnt) = w
          /\ \A v \in Threads : v # w => tried[v] \cap tried[w] = {}
          /\ (thr_pc[w] = "done" /\ failed_at[w] = -1) => tried[w] = OwnedBy(w)
    /\ (\A w \in Threads : thr_pc[w] = "done" /\ failed_at[w] = -1)
          => UNION {tried[w] : w \in Threads} = 0..(total_frames - 1)

C7_Witness ==
    /\ img_thread_cnt = 2
    /\ total_frames = 3
    /\ \A w \in Threads : thr_pc[w] = "done"
    /\ tried[0] = {0, 2}
    /\ tried[1] = {1}

NoFault == bad_frames = {}

PlayedToTheEnd ==
    /\ gfx_pc = "exit"
    /\ cur_frame = total_frames
    /\ Len(drawn) = total_frames
    /\ last_tick # "error"
    /\ joined = img_thread_cnt
    /\ \A w \in Threads : thr_pc[w] = "done"

\* C8: without any open or decode failure, with fair scheduling and an
\* advancing clock, cur_frame reaches total_frames, the loop ends after
\* exactly total_frames drawn frames, every loader thread finishes and every
\* join returns.
C8_PlaysToTheEnd == NoFault ~> PlayedToTheEnd

C8_Witness ==
    /\ NoFault
    /\ PlayedToTheEnd
    /\ total_frames > ChanCap
    /\ preload_frames > ChanCap

Digits == {"0", "1", "2", "3", "4", "5", "6", "7", "8", "9"}

DigitValue(c) == CHOOSE d \in 0..9 : << "0", "1", "2", "3", "4", "5", "6", "7", "8", "9" >>[d + 1] = c

RECURSIVE ParseDecimal(_)
ParseDecimal(cs) ==
    IF cs = <<>> THEN 0
    ELSE 10 * ParseDecimal(SubSeq(cs, 1, Len(cs) - 1)) + DigitValue(cs[Len(cs)])

NumberWidth(n) == IF n < 1000 THEN 3 ELSE IF n < 10000 THEN 4 ELSE 5

\* C9: the path of frame i is the directory, "/", the decimal number i + 1
\* zero-filled on the left to 3 digits (all its digits from 1000 on), ".",
\* and the extension.
C9_PathOfFrame ==
    img_fname # <<>> =>
        LET n == name_idx + 1
            d == Len(name_dir)
            k == NumberWidth(n)
            num == SubSeq(img_fname, d + 2, d + 1 + k)
        IN  /\ Len(img_fname) = d + 1 + k + 1 + Len(name_fmt)
            /\ SubSeq(img_fname, 1, d) = name_dir
            /\ img_fname[d + 1] = "/"
            /\ \A j \in 1..k : num[j] \in Digits
            /\ ParseDecimal(num) = n
            /\ img_fname[d + 2 + k] = "."
            /\ SubSeq(img_fname, d + 3 + k, Len(img_fname)) = name_fmt

C9_Witness ==
    /\ name_idx = 41
    /\ img_fname = <<"d", "/", "0", "4", "2", ".", "j", "p", "g">>

\* C10: a due tick whose try_recv finds the channel empty and its sender
\* gone (thread finished) leaves the loop at that tick with cur_frame
\* unchanged, and after that no frame is drawn any more.
C10_DisconnectEndsLoop ==
    /\ [][ ( /\ gfx_pc = "loop"
             /\ cur_frame < total_frames
             /\ ms_since_last > FrametimeMs(framerate)
             /\ chan[cur_frame % img_thread_cnt] = <<>>
             /\ thr_pc[cur_frame % img_thread_cnt] = "done"
             /\ ms_since_last' = 0 )
           => ( /\ gfx_pc' = "join"
                /\ last_tick' = "error"
                /\ cur_frame' = cur_frame
                /\ drawn' = drawn ) ]_vars
    /\ [][ last_tick = "error"
           => ( /\ gfx_pc' # "loop"
                /\ last_tick' = "error"
                /\ cur_frame' = cur_frame
                /\ drawn' = drawn ) ]_vars

C10_Witness ==
    /\ last_tick = "error"
    /\ gfx_pc = "join"
    /\ cur_frame > 0
    /\ cur_frame < total_frames
    /\ \E w \in Threads : chan[w] # <<>>

\* C11 as stated: a loader thread is never blocked inside tx.send waiting
\* for room in the channel; it only ever waits in the 100 ms sleep, entered
\* with the channel at the preload depth.
C11_NeverBlockedInSend ==
    \A w \in Threads :
        thr_pc[w] = "send" => Len(chan[w]) < ChanCap

TotalPopped(w) == Cardinality({k \in 1..Len(drawn_lane) : drawn_lane[k] = w})

\* C12: cur_frame starts at 0, never exceeds total_frames, changes only by +1
\* and only in a step that receives the head of a channel; once it equals
\* total_frames nothing is received any more.
C12_CursorMonotonic ==
    /\ cur_frame = 0
    /\ [](cur_frame >= 0 /\ cur_frame <= total_frames)
    /\ [][ /\ cur_frame' >= cur_frame
           /\ cur_frame' # cur_frame =>
                 /\ cur_frame' = cur_frame + 1
                 /\ chan[cur_frame % img_thread_cnt] # <<>>
                 /\ chan'[cur_frame % img_thread_cnt] = Tail(chan[cur_frame % img_thread_cnt])
                 /\ Len(drawn') = Len(drawn) + 1
           /\ cur_frame = total_frames =>
                 /\ drawn' = drawn
                 /\ \A w \in Threads : Len(chan'[w]) >= Len(chan[w]) ]_vars

C12_Witness ==
    /\ total_frames >= 3
    /\ cur_frame = total_frames
    /\ gfx_pc = "exit"
    /\ Len(drawn) = total_frames

\* C13: a thread's load cursor never decreases, and the j-th frame it sends
\* (j = 0, 1, ...) has index w + j * N: strictly ascending, owned indices
\* only, each at most once.
C13_LoadCursorAscending ==
    /\ [](\A w \in Threads :
            /\ \A j \in 1..Len(sent[w]) :
                  /\ sent[w][j] = w + (j - 1) * img_thread_cnt
                  /\ sent[w][j] < total_frames
                  /\ sent[w][j] < thr_cur_frame[w]
            /\ \A j, k \in 1..Len(sent[w]) : j < k => sent[w][j] < sent[w][k])
    /\ [][\A w \in Threads : thr_cur_frame'[w] >= thr_cur_frame[w]]_vars

C13_Witness ==
    /\ img_thread_cnt = 2
    /\ sent[1] = <<1, 3>>
    /\ sent[0] = <<0, 2>>
    /\ thr_cur_frame[1] = 4

\* C14: try_recv is attempted at most once per frame interval, whether it
\* succeeds or underruns: every attempt after the first comes at a clock
\* reading more than one interval after the reading of the attempt before,
\* last_ms being the reading of the latest attempt; an underrun keeps the
\* cursor where it is.
C14_OneAttemptPerInterval ==
    /\ [](last_tick # "none" => ms_since_last = ms_since_try)
    /\ [][ ( \/ last_tick' # last_tick
             \/ drawn' # drawn
             \/ ms_since_try' < ms_since_try )
           => ( /\ ms_since_try' = 0
                /\ last_tick # "none" => ms_since_try > 1000 \div framerate
                /\ last_tick' = "underrun" => cur_frame' = cur_frame ) ]_vars

C14_Witness ==
    /\ last_tick = "underrun"
    /\ cur_frame > 0
    /\ ms_since_last = 0
    /\ ms_since_draw > FrametimeMs(framerate)
    /\ chan[cur_frame % img_thread_cnt] # <<>>

\* C15: for every lane the frames sent are the frames received from it
\* followed by the frames in its channel; no index is sent twice or by two
\* threads, and no index is drawn twice.
C15_FramesConserved ==
    /\ \A w \in Threads :
          /\ Len(sent[w]) = TotalPopped(w) + Len(chan[w])
          /\ chan[w] = SubSeq(sent[w], TotalPopped(w) + 1, Len(sent[w]))
          /\ \A j, k \in 1..Len(sent[w]) : j # k => sent[w][j] # sent[w][k]
          /\ \A v \in Threads : v # w =>
                \A j \in 1..Len(sent[w]), k \in 1..Len(sent[v]) : sent[w][j] # sent[v][k]
    /\ \A j, k \in 1..Len(drawn) : j # k => drawn[j] # drawn[k]

C15_Witness ==
    \E w \in Threads :
        /\ TotalPopped(w) >= 1
        /\ Len(chan[w]) >= 1
        /\ Len(sent[w]) >= 3

ThrChanged(w) ==
    \/ thr_pc'[w] # thr_pc[w]
    \/ thr_cur_frame'[w] # thr_cur_frame[w]
    \/ sent'[w] # sent[w]
    \/ tried'[w] # tried[w]
    \/ failed_at'[w] # failed_at[w]

GfxChanged ==
    \/ gfx_pc' # gfx_pc
    \/ cur_frame' # cur_frame
    \/ last_tick' # last_tick
    \/ drawn' # drawn
    \/ joined' # joined
    \/ ms_since_try' < ms_since_try

\* C16: a step of loader thread w leaves cur_frame, last_ms and the channel
\* and load cursor of every other lane as they are; a step of the scheduler
\* leaves every load cursor and every channel as it is, except that it may
\* take the head out of the channel of lane cur_frame mod N.
C16_StepsStayInTheirLane ==
    [][ /\ \A w \in Threads :
             ThrChanged(w) =>
                /\ cur_frame' = cur_frame
                /\ ms_since_last' = ms_since_last
                /\ \A v \in Threads : v # w =>
                      /\ chan'[v] = chan[v]
                      /\ thr_cur_frame'[v] = thr_cur_frame[v]
        /\ GfxChanged =>
             /\ thr_cur_frame' = thr_cur_frame
             /\ \A v \in Threads :
                   \/ chan'[v] = chan[v]
                   \/ /\ v = cur_frame % img_thread_cnt
                      /\ chan[v] # <<>>
                      /\ chan'[v] = Tail(chan[v]) ]_vars

C16_Witness ==
    /\ img_thread_cnt = 2
    /\ cur_frame = 3
    /\ Len(sent[0]) = 2
    /\ Len(sent[1]) = 2
    /\ chan[0] = <<>>
    /\ chan[1] = <<3>>

\* the loop of main was left before the last frame
EarlyExit == gfx_pc # "loop" /\ cur_frame < total_frames

\* owned frames the thread has not sent yet, and free places of its channel
Owes(w) == OwnedCount(w) - Len(sent[w])
Room(w) == Min(preload_frames, ChanCap) - Len(chan[w])

Running(w) == thr_pc[w] \notin {"stopping", "done"}

StuckBehind(w) == EarlyExit /\ Running(w) /\ Owes(w) > Room(w)

\* C17 as stated: after an early exit of the loop a running thread that owes
\* more frames than its channel has room for never terminates.
C17_OwingThreadNeverEnds ==
    [][\A w \in Threads : StuckBehind(w) => Running(w)']_vars

\* C17 amended: after an early exit of the loop a running thread that owes
\* more frames than its channel has room for stays in that situation and
\* does not terminate unless one of its own loads fails; while there is
\* such a thread main has not joined it and has not reached the shutdown.
C17_OwingThreadEndsOnlyByFailure ==
    /\ [][\A w \in Threads :
            StuckBehind(w) => (StuckBehind(w)' \/ failed_at'[w] # -1)]_vars
    /\ [](\A w \in Threads :
            StuckBehind(w) => (gfx_pc = "join" /\ joined <= w))

C17_Witness ==
    \E w \in Threads :
        /\ StuckBehind(w)
        /\ last_tick = "error"
        /\ thr_pc[w] = "sleep"
        /\ Room(w) = 0
        /\ Owes(w) >= 1
        /\ joined = w

\* C18: the loop is left early only on an empty channel whose thread has
\* terminated, and then that thread failed at cur_frame, cur_frame is the
\* smallest failing index and every frame below it has been drawn: no frame
\* sent before a thread stopped is lost, and a thread that ended normally
\* never ends the loop.
C18_NoFrameLost ==
    /\ [](last_tick = "error" =>
            /\ bad_frames # {}
            /\ cur_frame = MinFault
            /\ failed_at[cur_frame % img_thread_cnt] = cur_frame
            /\ chan[cur_frame % img_thread_cnt] = <<>>
            /\ drawn = [k \in 1..cur_frame |-> k - 1]
            /\ \A w \in Threads : \A j \in 1..Len(sent[w]) :
                  sent[w][j] < cur_frame => sent[w][j] \in {drawn[k] : k \in 1..Len(drawn)})
    /\ [][(last_tick' = "error" /\ last_tick # "error") =>
            /\ chan[cur_frame % img_thread_cnt] = <<>>
            /\ thr_pc[cur_frame % img_thread_cnt] = "done"]_vars

C18_Witness ==
    /\ last_tick = "error"
    /\ gfx_pc # "loop"
    /\ cur_frame >= 2
    /\ Len(sent[cur_frame % img_thread_cnt]) >= 1
    /\ \E w \in Threads : thr_pc[w] = "done" /\ failed_at[w] = -1

====
